---- MODULE Spec2Model ----
(***************************************************************************)
(* Model of element_interface/intan_loader.py: the Intan RHS reader.       *)
(*   read_qstring  -> variable qstr,  specification SpecQ                   *)
(*   read_header   -> variable hdr,   specification SpecH                   *)
(*   load_rhs      -> variable rhs,   specification SpecL                   *)
(*   the per-sample transforms of load_rhs on every 16-bit word            *)
(*                 -> variable scl,   specification SpecS                   *)
(* Text (paths, patterns, file names) is a sequence of one-character       *)
(* strings, so that "x in path", glob matching and Path.stem are computed. *)
(* A real number is an exact fraction [num |-> n, den |-> d].               *)
(***************************************************************************)
EXTENDS Integers, Sequences, FiniteSets, TLC

VARIABLES qstr, hdr, rhs, scl

vars == <<qstr, hdr, rhs, scl>>

(***************************************************************************)
(* Bounds of the model.                                                    *)
(***************************************************************************)
MaxFileSize == 8      \* sizes (bytes) of the source read_qstring reads from
MaxDeclared == 10     \* declared string lengths other than the null sentinel
MaxGroups == 2        \* number_of_signal_groups read from the stream
MaxChannels == 2      \* signal_group_num_channels read from the stream
MaxRecords == 4       \* channel records in one header stream
MaxDirFiles == 4      \* files in the folder given to load_rhs

(***************************************************************************)
(* read_qstring(fid)                                                       *)
(***************************************************************************)
\* A 32-bit unsigned value is the pair of its 16-bit halves.
U32(hi, lo) == [hi |-> hi, lo |-> lo]
NullLength == U32(65535, 65535)   \* int("ffffffff", 16)

\* length > limit, for a limit below 2^16
Exceeds(length, limit) == length.hi > 0 \/ length.lo > limit

\* The declared lengths the source holds: the small ones, the null sentinel and
\* two large ones.
Prefixes == {U32(0, n) : n \in 0..MaxDeclared} \cup {NullLength, U32(65535, 65534), U32(1, 0)}

QIdle == [pc |-> "idle"]

\* The frame of one call: the source has `size` bytes, the cursor is at `pos`
\* and the four bytes at the cursor (when there are four) encode `prefix`.
QInit ==
    qstr \in [size : 0..MaxFileSize, pos : 0..MaxFileSize, prefix : Prefixes,
              after : {-1}, length : {U32(0, 0)}, data : {<<>>}, pc : {"start"}, err : {"none"}, ret : {[returned |-> FALSE]}]
    /\ qstr.pos <= qstr.size

\* os.fstat(fid.fileno()).st_size - fid.tell() + 1
LengthLimit(size, tell) == size - tell + 1

\* (length,) = struct.unpack("<I", fid.read(4)): a short read makes unpack raise.
QReadPrefix ==
    /\ qstr.pc = "start"
    /\ IF qstr.size - qstr.pos < 4
       THEN qstr' = [qstr EXCEPT !.pos = qstr.size, !.pc = "error", !.err = "struct.error"]
       ELSE qstr' = [qstr EXCEPT !.pos = qstr.pos + 4, !.after = qstr.pos + 4,
                                 !.length = qstr.prefix, !.pc = "check"]
    /\ UNCHANGED <<hdr, rhs, scl>>

\* The null test, the length test and the conversion from bytes to 16-bit words.
QCheckLength ==
    /\ qstr.pc = "check"
    /\ IF qstr.length = NullLength
       THEN qstr' = [qstr EXCEPT !.pc = "done", !.ret = [returned |-> TRUE, value |-> <<>>]]
       ELSE IF Exceeds(qstr.length, LengthLimit(qstr.size, qstr.pos))
            THEN qstr' = [qstr EXCEPT !.pc = "error", !.err = "Length too long."]
            ELSE qstr' = [qstr EXCEPT !.length = U32(0, qstr.length.lo \div 2), !.pc = "loop"]
    /\ UNCHANGED <<hdr, rhs, scl>>

\* One iteration of the loop: (c,) = struct.unpack("<H", fid.read(2)); data.append(c).
\* A code unit is recorded by the byte offset it was read at.
QReadUnit ==
    /\ qstr.pc = "loop"
    /\ Len(qstr.data) < qstr.length.lo
    /\ IF qstr.size - qstr.pos < 2
       THEN qstr' = [qstr EXCEPT !.pos = qstr.size, !.pc = "error", !.err = "struct.error"]
       ELSE qstr' = [qstr EXCEPT !.pos = qstr.pos + 2, !.data = Append(qstr.data, qstr.pos)]
    /\ UNCHANGED <<hdr, rhs, scl>>

\* The loop is over: the code units are joined and returned.
QReturn ==
    /\ qstr.pc = "loop"
    /\ Len(qstr.data) = qstr.length.lo
    /\ qstr' = [qstr EXCEPT !.pc = "done", !.ret = [returned |-> TRUE, value |-> qstr.data]]
    /\ UNCHANGED <<hdr, rhs, scl>>

QNext == QReadPrefix \/ QCheckLength \/ QReadUnit \/ QReturn

(***************************************************************************)
(* read_header(fid)                                                        *)
(* The values the stream holds are drawn when the decoder reads them.      *)
(* A channel record is identified by its ordinal in the stream (record);   *)
(* hdr.seen logs, for every record read whose enabled flag is nonzero, the *)
(* record and the signal-type code the stream held; hdr.due counts the     *)
(* channel records the stream holds: those of the groups whose enabled     *)
(* flag and channel count are both positive (the two logs are the input,   *)
(* not part of the decoder's result).                                      *)
(***************************************************************************)
MagicNumber == U32(54929, 10156)  \* int("0xD69127AC", 16)

Int16Samples == {-1, 0, 1}        \* values an enabled flag takes in the stream
SignalTypes == -1..7              \* signal_type codes the stream holds

HIdle == [pc |-> "idle"]

HInit ==
    hdr = [pc |-> "magic", err |-> "none", ret |-> [returned |-> FALSE],
           number_of_signal_groups |-> 0, signal_group |-> 0, channels_left |-> 0,
           records |-> 0, seen |-> <<>>, due |-> 0,
           spike_triggers |-> <<>>, amplifier_channels |-> <<>>,
           board_adc_channels |-> <<>>, board_dac_channels |-> <<>>,
           board_dig_in_channels |-> <<>>, board_dig_out_channels |-> <<>>]

\* if magic_number != int("0xD69127AC", 16): raise Exception("Unrecognized file type.")
HReadMagic ==
    /\ hdr.pc = "magic"
    /\ \E magic_number \in {MagicNumber, U32(0, 0)} :
         IF magic_number # MagicNumber
         THEN hdr' = [hdr EXCEPT !.pc = "error", !.err = "Unrecognized file type."]
         ELSE hdr' = [hdr EXCEPT !.pc = "scalars"]
    /\ UNCHANGED <<qstr, rhs, scl>>

\* The fixed fields from the version to ref_channel_name (none of them decides a
\* later step, and they are left out of the state), the six empty channel lists,
\* and number_of_signal_groups.
HReadScalars ==
    /\ hdr.pc = "scalars"
    /\ \E n \in -1..MaxGroups :
         hdr' = [hdr EXCEPT !.pc = "groups", !.number_of_signal_groups = n]
    /\ UNCHANGED <<qstr, rhs, scl>>

\* if (signal_group_num_channels > 0) and (signal_group_enabled > 0): the number of
\* channel records the inner loop reads for the group.
GroupChannels(signal_group_enabled, signal_group_num_channels) ==
    IF signal_group_num_channels > 0 /\ signal_group_enabled > 0
    THEN signal_group_num_channels ELSE 0

\* The head of one iteration of the loop over the signal groups.
HReadGroup ==
    /\ hdr.pc = "groups"
    /\ hdr.channels_left = 0
    /\ hdr.signal_group < hdr.number_of_signal_groups
    /\ \E signal_group_enabled \in Int16Samples,
          signal_group_num_channels \in -1..MaxChannels,
          signal_group_num_amp_channels \in 0..MaxChannels :
         /\ hdr.records + GroupChannels(signal_group_enabled, signal_group_num_channels) <= MaxRecords
         /\ hdr' = [hdr EXCEPT !.signal_group = hdr.signal_group + 1,
                               !.due = IF signal_group_enabled >= 1 /\ signal_group_num_channels >= 1
                                       THEN hdr.due + signal_group_num_channels ELSE hdr.due,
                               !.channels_left = GroupChannels(signal_group_enabled,
                                                               signal_group_num_channels)]
    /\ UNCHANGED <<qstr, rhs, scl>>

\* if channel_enabled:
ChannelRetainedStrict(channel_enabled) == channel_enabled > 0
ChannelRetained(channel_enabled) == channel_enabled # 0

\* The if/elif chain over signal_type: the list the channel is appended to, or the
\* exception raised.
ChannelListSwapped(signal_type) ==
    CASE signal_type = 0 -> "amplifier_channels"
      [] signal_type \in {1, 2} -> "Wrong signal type for the rhs format"
      [] signal_type = 3 -> "board_dac_channels"
      [] signal_type = 4 -> "board_adc_channels"
      [] signal_type = 5 -> "board_dig_in_channels"
      [] signal_type = 6 -> "board_dig_out_channels"
      [] OTHER -> "Unknown channel type."
ChannelList(signal_type) ==
    CASE signal_type = 0 -> "amplifier_channels"
      [] signal_type \in {1, 2} -> "Wrong signal type for the rhs format"
      [] signal_type = 3 -> "board_adc_channels"
      [] signal_type = 4 -> "board_dac_channels"
      [] signal_type = 5 -> "board_dig_in_channels"
      [] signal_type = 6 -> "board_dig_out_channels"
      [] OTHER -> "Unknown channel type."

ChannelErrors == {"Wrong signal type for the rhs format", "Unknown channel type."}

\* header["spike_triggers"] after a retained channel of the given type.
SpikeTriggersEveryChannel(spike_triggers, signal_type, new_trigger_channel) ==
    IF signal_type \in {0, 3, 4, 5, 6}
    THEN Append(spike_triggers, new_trigger_channel) ELSE spike_triggers
SpikeTriggers(spike_triggers, signal_type, new_trigger_channel) ==
    IF signal_type = 0 THEN Append(spike_triggers, new_trigger_channel) ELSE spike_triggers

\* header[name] after a retained channel that belongs to list `target`.
Appended(h, name, target, new_channel) ==
    IF name = target THEN Append(h[name], new_channel) ELSE h[name]

\* One channel record: its fields are read, then it is classified.
HReadChannel ==
    /\ hdr.pc = "groups"
    /\ hdr.channels_left > 0
    /\ \E signal_type \in SignalTypes, channel_enabled \in Int16Samples :
         LET record == hdr.records + 1
             new_channel == [port_number |-> hdr.signal_group, record |-> record]
             new_trigger_channel == [record |-> record]
             target == ChannelList(signal_type)
             read == [hdr EXCEPT !.records = record,
                                 !.channels_left = hdr.channels_left - 1,
                                 !.seen = IF channel_enabled # 0
                                          THEN Append(hdr.seen, [record |-> record,
                                                                 signal_type |-> signal_type])
                                          ELSE hdr.seen]
         IN  IF ~ChannelRetained(channel_enabled)
             THEN hdr' = read
             ELSE IF target \in ChannelErrors
                  THEN hdr' = [read EXCEPT !.pc = "error", !.err = target]
                  ELSE hdr' = [read EXCEPT
                         !.amplifier_channels = Appended(hdr, "amplifier_channels", target, new_channel),
                         !.spike_triggers = SpikeTriggers(hdr.spike_triggers, signal_type,
                                                          new_trigger_channel),
                         !.board_adc_channels = Appended(hdr, "board_adc_channels", target, new_channel),
                         !.board_dac_channels = Appended(hdr, "board_dac_channels", target, new_channel),
                         !.board_dig_in_channels = Appended(hdr, "board_dig_in_channels", target, new_channel),
                         !.board_dig_out_channels = Appended(hdr, "board_dig_out_channels", target, new_channel)]
    /\ UNCHANGED <<qstr, rhs, scl>>

\* A read of the stream comes back short (struct.unpack raises) or read_qstring
\* raises: the exception leaves read_header.
HReadFails ==
    /\ hdr.pc \in {"scalars", "groups"}
    /\ hdr.signal_group < hdr.number_of_signal_groups \/ hdr.channels_left > 0 \/ hdr.pc = "scalars"
    /\ hdr' = [hdr EXCEPT !.pc = "error", !.err = "struct.error"]
    /\ UNCHANGED <<qstr, rhs, scl>>

\* header["num_*_channels"] = len(header["*_channels"])
Summary(h) ==
    [num_amplifier_channels |-> Len(h.amplifier_channels),
     num_board_adc_channels |-> Len(h.board_adc_channels),
     num_board_dac_channels |-> Len(h.board_dac_channels),
     num_board_dig_in_channels |-> Len(h.board_dig_in_channels),
     num_board_dig_out_channels |-> Len(h.board_dig_out_channels)]

\* The loops are over: the summary is computed and the header returned.
HReturn ==
    /\ hdr.pc = "groups"
    /\ hdr.channels_left = 0
    /\ hdr.signal_group >= hdr.number_of_signal_groups
    /\ hdr' = [hdr EXCEPT !.pc = "done",
                 !.ret = Summary(hdr) @@
                         [returned |-> TRUE,
                          spike_triggers |-> hdr.spike_triggers,
                          amplifier_channels |-> hdr.amplifier_channels,
                          board_adc_channels |-> hdr.board_adc_channels,
                          board_dac_channels |-> hdr.board_dac_channels,
                          board_dig_in_channels |-> hdr.board_dig_in_channels,
                          board_dig_out_channels |-> hdr.board_dig_out_channels]]
    /\ UNCHANGED <<qstr, rhs, scl>>

HNext == HReadMagic \/ HReadScalars \/ HReadGroup \/ HReadChannel \/ HReadFails \/ HReturn

(***************************************************************************)
(* Text: the literals of load_rhs and the inputs it is run on.             *)
(***************************************************************************)
HeaderFileName == <<"i", "n", "f", "o", ".", "r", "h", "s">>    \* "info.rhs": the pattern of the header file
TimeFileName == <<"t", "i", "m", "e", ".", "d", "a", "t">>    \* "time.dat": the pattern of the timestamp file, and the name the filter compares with
SubAmp == <<"a", "m", "p">>    \* "amp"
SubAnalogIn == <<"b", "o", "a", "r", "d", "-", "A", "N", "A", "L", "O", "G", "-", "I", "N">>    \* "board-ANALOG-IN"
SubAnalogOut == <<"b", "o", "a", "r", "d", "-", "A", "N", "A", "L", "O", "G", "-", "O", "U", "T">>    \* "board-ANALOG-OUT"
SubDc == <<"d", "c", "-">>    \* "dc-"
SubDigitalIn == <<"b", "o", "a", "r", "d", "-", "D", "I", "G", "I", "T", "A", "L", "-", "I", "N">>    \* "board-DIGITAL-IN"
SubDigitalOut == <<"b", "o", "a", "r", "d", "-", "D", "I", "G", "I", "T", "A", "L", "-", "O", "U", "T">>    \* "board-DIGITAL-OUT"
SubStim == <<"s", "t", "i", "m", "-">>    \* "stim-"

\* Folders, selection patterns and file names load_rhs is run on.
FolderDot == <<".">>    \* "."
FolderData == <<"/", "d", "a", "t", "a">>    \* "/data"
FolderSample == <<"/", "d", "a", "t", "a", "/", "s", "a", "m", "p", "l", "e", "1">>    \* "/data/sample1"
PatDat == <<"*", ".", "d", "a", "t">>    \* "*.dat"
PatAmp == <<"a", "m", "p", "*", "d", "a", "t">>    \* "amp*dat"
OtherHeaderFile == <<"i", "n", "f", "o", "2", ".", "r", "h", "s">>    \* "info2.rhs"
AmpFile == <<"a", "m", "p", "-", "A", "-", "0", "0", "0", ".", "d", "a", "t">>    \* "amp-A-000.dat"
AdcFile == <<"b", "o", "a", "r", "d", "-", "A", "N", "A", "L", "O", "G", "-", "I", "N", "-", "1", ".", "d", "a", "t">>    \* "board-ANALOG-IN-1.dat"
DcFile == <<"d", "c", "-", "A", "-", "0", "0", "0", ".", "d", "a", "t">>    \* "dc-A-000.dat"
DigFile == <<"b", "o", "a", "r", "d", "-", "D", "I", "G", "I", "T", "A", "L", "-", "I", "N", "-", "0", "1", ".", "d", "a", "t">>    \* "board-DIGITAL-IN-01.dat"
StimFile == <<"s", "t", "i", "m", "-", "A", "-", "0", "0", "0", ".", "d", "a", "t">>    \* "stim-A-000.dat"
MysteryFile == <<"m", "y", "s", "t", "e", "r", "y", ".", "d", "a", "t">>    \* "mystery.dat"

Folders == {FolderDot, FolderData, FolderSample}
Patterns == {PatDat, PatAmp}
FileNames == {HeaderFileName, OtherHeaderFile, TimeFileName, AmpFile, AdcFile, DcFile,
              DigFile, StimFile, MysteryFile}

\* The 16-bit words every data file holds, the ticks time.dat holds, the sample
\* rate and the stim step sizes a header holds (whole multiples of the unit the
\* stimulation current is counted in).
RawWords == <<0, 100, 65436>>
TimeTicks == <<0, 30000, 60000>>
SampleRates == {30000}
StimSteps == {0, 10}

(***************************************************************************)
(* Text and path operations (str "in", pathlib's glob, as_posix,           *)
(* relative_to and stem).                                                  *)
(***************************************************************************)
\* sub in s
Contains(sub, s) ==
    \E i \in 0..(Len(s) - Len(sub)) : SubSeq(s, i + 1, i + Len(sub)) = sub

\* Whether a name matches a glob pattern ("*" any run of characters, "?" any one).
RECURSIVE FnMatch(_, _)
FnMatch(pat, s) ==
    IF pat = <<>> THEN s = <<>>
    ELSE IF Head(pat) = "*"
         THEN FnMatch(Tail(pat), s) \/ (s # <<>> /\ FnMatch(pat, Tail(s)))
         ELSE /\ s # <<>>
              /\ Head(pat) = "?" \/ Head(pat) = Head(s)
              /\ FnMatch(Tail(pat), Tail(s))

\* The path Path(folder).glob yields for an entry of the folder: Path(".") / name
\* is name itself.
JoinPath(folder, name) ==
    IF folder = FolderDot THEN name ELSE folder \o <<"/">> \o name

\* The paths Path(folder).glob(pat) yields, in no particular order.
Glob(folder, dir, pat) == {JoinPath(folder, name) : name \in {n \in dir : FnMatch(pat, n)}}

\* Path(file_path).relative_to(folder), for a path the glob of folder yielded.
RelativeTo(file_path, folder) ==
    IF folder = FolderDot THEN file_path
    ELSE SubSeq(file_path, Len(folder) + 2, Len(file_path))

\* PurePath.stem: the name without its last suffix.
Stem(name) ==
    LET dots == {i \in 2..Len(name) : name[i] = "."}
    IN  IF dots = {} \/ name[Len(name)] = "." THEN name
        ELSE SubSeq(name, 1, (CHOOSE i \in dots : \A j \in dots : j <= i) - 1)

\* Every ordering of a finite set, as a sequence.
Orderings(S) ==
    {f \in [1..Cardinality(S) -> S] : \A i, j \in 1..Cardinality(S) : f[i] = f[j] => i = j}

(***************************************************************************)
(* The classification of a data file and the transform of one 16-bit word. *)
(* NumPy keeps the dtype of a uint16 array in arithmetic with a Python     *)
(* int that fits uint16: the result wraps modulo 2^16.                     *)
(***************************************************************************)
Frac(n, d) == [num |-> n, den |-> d]

\* The word as np.int16 and the result of uint16 arithmetic.
Int16(word) == IF word >= 32768 THEN word - 65536 ELSE word
UInt16(x) == x % 65536

\* The if/elif chain of the loop over file_paths, on the text it is given.
Classify(file_path) ==
    IF Contains(SubAmp, file_path) THEN "amp"
    ELSE IF Contains(SubAnalogIn, file_path) \/ Contains(SubAnalogOut, file_path) THEN "adc"
    ELSE IF Contains(SubDc, file_path) THEN "dc"
    ELSE IF Contains(SubDigitalIn, file_path) \/ Contains(SubDigitalOut, file_path) THEN "dig"
    ELSE IF Contains(SubStim, file_path) THEN "stim"
    ELSE "none"

Kinds == {"amp", "adc", "dc", "dig", "stim"}

\* signal = signal * 0.195
ScaleAmp(word) == Frac(Int16(word) * 195, 1000)
\* signal = (signal - 32768) * 0.0003125
ScaleAdc(word) == Frac(UInt16(word - 32768) * 3125, 10000000)
\* signal = (signal - 512) * 19.23
ScaleDc(word) == Frac(UInt16(word - 512) * 1923, 100)
\* np.bitwise_and(data, 255)
LowByte(word) == word % 256
\* i = np.bitwise_and(data, 255) * header["stim_step_size"]
StimMagnitude(word, stim_step_size) == Frac(LowByte(word) * stim_step_size, 1)
\* sign = (128 - np.bitwise_and(data, 255)) / 128
StimSign(word) == Frac(UInt16(128 - LowByte(word)), 128)
\* signal = i * sign
ScaleStim(word, stim_step_size) ==
    Frac(StimMagnitude(word, stim_step_size).num * StimSign(word).num,
         StimMagnitude(word, stim_step_size).den * StimSign(word).den)

\* The sample a file of the given kind gets for one word.
Transform(kind, word, stim_step_size) ==
    CASE kind = "amp" -> ScaleAmp(word)
      [] kind = "adc" -> ScaleAdc(word)
      [] kind = "dc" -> ScaleDc(word)
      [] kind = "dig" -> Frac(word, 1)
      [] kind = "stim" -> ScaleStim(word, stim_step_size)

(***************************************************************************)
(* The transforms on every 16-bit word.                                    *)
(***************************************************************************)
SIdle == [pc |-> "idle"]

SInit ==
    scl \in [word : 0..65535, stim_step_size : StimSteps, pc : {"start"}, kind : {"none"},
             sign : {Frac(0, 1)}, signal : {Frac(0, 1)}]

\* The branch of the loop body for a file of kind k, on one word of the file.
SApply(k) ==
    /\ scl.pc = "start"
    /\ scl' = [scl EXCEPT !.pc = "done", !.kind = k,
                          !.sign = IF k = "stim" THEN StimSign(scl.word) ELSE Frac(1, 1),
                          !.signal = Transform(k, scl.word, scl.stim_step_size)]
    /\ UNCHANGED <<qstr, hdr, rhs>>

SAmp == SApply("amp")
SAdc == SApply("adc")
SDc == SApply("dc")
SDig == SApply("dig")
SStim == SApply("stim")

SNext == SAmp \/ SAdc \/ SDc \/ SDig \/ SStim

(***************************************************************************)
(* load_rhs(folder, file_expr)                                             *)
(* rhs.dir is the set of file names the folder holds.  rhs.opened (the     *)
(* timestamp and data files mapped so far) and rhs.applied (each file the  *)
(* loop took, with the branch it took) log what the call did.              *)
(***************************************************************************)
LIdle == [pc |-> "idle"]

LInit ==
    \E folder \in Folders, file_expr \in Patterns,
       dir \in {d \in SUBSET FileNames : Cardinality(d) <= MaxDirFiles} :
      rhs = [folder |-> folder, file_expr |-> file_expr, dir |-> dir,
             pc |-> "start", err |-> "none", returned |-> FALSE,
             header_filepath |-> <<>>, stim_step_size |-> 0, amplifier_sample_rate |-> 0,
             timestamps |-> <<>>, file_paths |-> <<>>,
             signal_bound |-> FALSE, signal |-> <<>>, recordings |-> <<>>,
             opened |-> {}, applied |-> <<>>]

\* header_filepath = next(Path(folder).glob("info.rhs")): next raises StopIteration
\* when the glob yields nothing.
LFindHeader ==
    /\ rhs.pc = "start"
    /\ LET matches == Glob(rhs.folder, rhs.dir, HeaderFileName)
       IN  IF matches = {}
           THEN rhs' = [rhs EXCEPT !.pc = "error", !.err = "StopIteration"]
           ELSE \E first \in matches :
                  rhs' = [rhs EXCEPT !.pc = "read_header", !.header_filepath = first]
    /\ UNCHANGED <<qstr, hdr, scl>>

\* header = read_header(fid) returns: the two header fields load_rhs uses.
LReadHeader ==
    /\ rhs.pc = "read_header"
    /\ \E step \in StimSteps, rate \in SampleRates :
         rhs' = [rhs EXCEPT !.pc = "find_time", !.stim_step_size = step,
                            !.amplifier_sample_rate = rate]
    /\ UNCHANGED <<qstr, hdr, scl>>

\* header = read_header(fid) raises: the exception leaves load_rhs.
LReadHeaderFails ==
    /\ rhs.pc = "read_header"
    /\ rhs' = [rhs EXCEPT !.pc = "error", !.err = "read_header"]
    /\ UNCHANGED <<qstr, hdr, scl>>

\* time_file = next(Path(folder).glob("time.dat")), the timestamps and rhs_data.
LReadTime ==
    /\ rhs.pc = "find_time"
    /\ LET matches == Glob(rhs.folder, rhs.dir, TimeFileName)
       IN  IF matches = {}
           THEN rhs' = [rhs EXCEPT !.pc = "error", !.err = "StopIteration"]
           ELSE \E time_file \in matches :
                  rhs' = [rhs EXCEPT !.pc = "list",
                            !.opened = rhs.opened \cup {time_file},
                            !.timestamps = [i \in 1..Len(TimeTicks) |->
                                              Frac(TimeTicks[i], rhs.amplifier_sample_rate)],
                            !.recordings = <<>>]
    /\ UNCHANGED <<qstr, hdr, scl>>

\* [x for x in file_paths if x.as_posix() != "time.dat"]
NotTimeFile(x, folder) == x # TimeFileName

\* file_paths: the glob of the selection pattern, filtered; the glob's order is the
\* file system's.
LListFiles ==
    /\ rhs.pc = "list"
    /\ \E order \in Orderings({x \in Glob(rhs.folder, rhs.dir, rhs.file_expr) :
                                 NotTimeFile(x, rhs.folder)}) :
         rhs' = [rhs EXCEPT !.pc = "loop", !.file_paths = order]
    /\ UNCHANGED <<qstr, hdr, scl>>

\* One iteration of the loop over file_paths.  With no branch taken, signal is what
\* the previous iteration left, and reading it before any assignment raises
\* UnboundLocalError.
LProcessFile ==
    /\ rhs.pc = "loop"
    /\ rhs.file_paths # <<>>
    /\ LET file_path == Head(rhs.file_paths)
           kind == Classify(file_path)
           signal == IF kind = "none" THEN rhs.signal
                     ELSE [i \in 1..Len(RawWords) |->
                             Transform(kind, RawWords[i], rhs.stim_step_size)]
           took == [rhs EXCEPT !.file_paths = Tail(rhs.file_paths),
                               !.applied = Append(rhs.applied, [file_path |-> file_path,
                                                                kind |-> kind]),
                               !.opened = IF kind = "none" THEN rhs.opened
                                          ELSE rhs.opened \cup {file_path}]
       IN  IF kind = "none" /\ ~rhs.signal_bound
           THEN rhs' = [took EXCEPT !.pc = "error", !.err = "UnboundLocalError"]
           ELSE rhs' = [took EXCEPT !.signal_bound = TRUE, !.signal = signal,
                          !.recordings = (Stem(RelativeTo(file_path, rhs.folder)) :> signal)
                                          @@ rhs.recordings]
    /\ UNCHANGED <<qstr, hdr, scl>>

\* return rhs_data
LReturn ==
    /\ rhs.pc = "loop"
    /\ rhs.file_paths = <<>>
    /\ rhs' = [rhs EXCEPT !.pc = "done", !.returned = TRUE]
    /\ UNCHANGED <<qstr, hdr, scl>>

LNext == LFindHeader \/ LReadHeader \/ LReadHeaderFails \/ LReadTime \/ LListFiles
         \/ LProcessFile \/ LReturn

(***************************************************************************)
(* Specifications: one per function, and the four together.                *)
(***************************************************************************)
InitQ == QInit /\ hdr = HIdle /\ rhs = LIdle /\ scl = SIdle
InitH == HInit /\ qstr = QIdle /\ rhs = LIdle /\ scl = SIdle
InitL == LInit /\ qstr = QIdle /\ hdr = HIdle /\ scl = SIdle
InitS == SInit /\ qstr = QIdle /\ hdr = HIdle /\ rhs = LIdle

SpecQ == InitQ /\ [][QNext]_vars
SpecH == InitH /\ [][HNext]_vars
SpecL == InitL /\ [][LNext]_vars
SpecS == InitS /\ [][SNext]_vars

Init == InitQ \/ InitH \/ InitL \/ InitS

Next == QNext \/ HNext \/ LNext \/ SNext

Spec == Init /\ [][Next]_vars

(***************************************************************************)
(* Properties of read_qstring (under SpecQ).                               *)
(***************************************************************************)
\* C5: for every cursor position and every declared length other than the null
\* sentinel, when the declared byte length is greater than the number of bytes
\* that remain after the prefix, read_qstring fails with the length error
\* ("Length too long.") before it reads any code unit; it never tries to read a
\* code unit past the end of the source.
C5_LongLengthRejected ==
    (/\ qstr.after >= 0
     /\ qstr.pc # "check"
     /\ qstr.prefix # NullLength
     /\ Exceeds(qstr.prefix, qstr.size - qstr.after))
    => (qstr.pc = "error" /\ qstr.err = "Length too long." /\ qstr.data = <<>>)

(***************************************************************************)
(* Properties of read_header (under SpecH).                                *)
(***************************************************************************)
\* The stream ordinals of the records a channel list (or the trigger list) holds.
RecordsOf(list) == [i \in 1..Len(list) |-> list[i].record]

\* The stream ordinals of the records with a nonzero enabled flag and the given
\* signal-type code, in stream order.
SeenOf(code) == RecordsOf(SelectSeq(hdr.seen, LAMBDA e : e.signal_type = code))

\* C6: during and after read_header, whatever the groups, signal types and
\* enabled flags, spike_triggers is as long as amplifier_channels and the trigger
\* at index i was read from the same channel record as the amplifier channel at
\* index i.
C6_TriggersParallel ==
    /\ Len(hdr.spike_triggers) = Len(hdr.amplifier_channels)
    /\ RecordsOf(hdr.spike_triggers) = RecordsOf(hdr.amplifier_channels)
    /\ hdr.ret.returned =>
         /\ Len(hdr.ret.spike_triggers) = Len(hdr.ret.amplifier_channels)
         /\ RecordsOf(hdr.ret.spike_triggers) = RecordsOf(hdr.ret.amplifier_channels)

\* C6's case: a returned header with two amplifier channels, a retained channel of
\* another kind and a record that was not retained.
C6_Witness ==
    /\ hdr.ret.returned
    /\ Len(hdr.ret.amplifier_channels) >= 2
    /\ Len(hdr.ret.board_adc_channels) + Len(hdr.ret.board_dig_in_channels) >= 1
    /\ hdr.records > Len(hdr.seen)

\* C7: in every header read_header returns, each num_*_channels field equals the
\* length of its channel list, which is the number of channel records read with
\* that signal-type code and a nonzero enabled flag; the records read are those
\* of the groups with a positive enabled flag and a positive channel count; the
\* amp channel count of a group is drawn freely and changes nothing.
C7_CountsAreLengths ==
    hdr.ret.returned =>
      /\ hdr.records = hdr.due
      /\ hdr.ret.num_amplifier_channels = Len(hdr.ret.amplifier_channels)
      /\ hdr.ret.num_board_adc_channels = Len(hdr.ret.board_adc_channels)
      /\ hdr.ret.num_board_dac_channels = Len(hdr.ret.board_dac_channels)
      /\ hdr.ret.num_board_dig_in_channels = Len(hdr.ret.board_dig_in_channels)
      /\ hdr.ret.num_board_dig_out_channels = Len(hdr.ret.board_dig_out_channels)
      /\ hdr.ret.num_amplifier_channels = Len(SeenOf(0))
      /\ hdr.ret.num_board_adc_channels = Len(SeenOf(3))
      /\ hdr.ret.num_board_dac_channels = Len(SeenOf(4))
      /\ hdr.ret.num_board_dig_in_channels = Len(SeenOf(5))
      /\ hdr.ret.num_board_dig_out_channels = Len(SeenOf(6))

\* C7's case: a returned header with channels of two kinds, from two groups, and a
\* record whose enabled flag was zero.
C7_Witness ==
    /\ hdr.ret.returned
    /\ hdr.ret.num_amplifier_channels >= 1
    /\ hdr.ret.num_board_dac_channels >= 2
    /\ hdr.signal_group >= 2
    /\ hdr.records > Len(hdr.seen)

\* C8: an enabled channel record with signal-type code 1 or 2 aborts read_header
\* with "Wrong signal type for the rhs format", one with a code outside 0..6 with
\* "Unknown channel type."; no header is returned after an abort; codes 0, 3, 4, 5
\* and 6 append the channel to the amplifier, ADC, DAC, digital-in and digital-out
\* list, in stream order.
C8_Classification ==
    /\ \A i \in 1..Len(hdr.seen) :
         /\ hdr.seen[i].signal_type \in {1, 2} =>
              (hdr.pc = "error" /\ hdr.err = "Wrong signal type for the rhs format"
               /\ i = Len(hdr.seen))
         /\ hdr.seen[i].signal_type \notin 0..6 =>
              (hdr.pc = "error" /\ hdr.err = "Unknown channel type." /\ i = Len(hdr.seen))
    /\ hdr.pc = "error" => ~hdr.ret.returned
    /\ RecordsOf(hdr.amplifier_channels) = SeenOf(0)
    /\ RecordsOf(hdr.board_adc_channels) = SeenOf(3)
    /\ RecordsOf(hdr.board_dac_channels) = SeenOf(4)
    /\ RecordsOf(hdr.board_dig_in_channels) = SeenOf(5)
    /\ RecordsOf(hdr.board_dig_out_channels) = SeenOf(6)

\* C8's case: the decode aborted on a record of code 1 or 2 after it had appended an
\* ADC, a DAC and a digital-out channel.
C8_Witness ==
    /\ hdr.pc = "error"
    /\ hdr.err = "Wrong signal type for the rhs format"
    /\ Len(hdr.board_adc_channels) >= 1
    /\ Len(hdr.board_dac_channels) >= 1
    /\ Len(hdr.board_dig_out_channels) >= 1

(***************************************************************************)
(* Properties of load_rhs (under SpecL).                                   *)
(***************************************************************************)
\* The name of a file the glob of the folder yielded.
NameOf(file_path) == RelativeTo(file_path, rhs.folder)

\* C1: a matched file whose name contains none of the known substrings makes
\* load_rhs fail, as the first file of the loop or after files that were
\* classified; it is never skipped silently and never gets a recordings entry.
\* (Stated for the data files, in the runs where the loop took no branch for the
\* file.)
C1_UnclassifiedFileFails ==
    \A i \in 1..Len(rhs.applied) :
      (/\ NameOf(rhs.applied[i].file_path) # TimeFileName
       /\ Classify(NameOf(rhs.applied[i].file_path)) = "none"
       /\ rhs.applied[i].kind = "none") =>
        /\ rhs.pc = "error"
        /\ i = Len(rhs.applied)
        /\ Stem(NameOf(rhs.applied[i].file_path)) \notin DOMAIN rhs.recordings

\* C2: for every folder and every selection pattern that matches it, time.dat is
\* left out of the files that are classified and scaled, and recordings never has
\* an entry for it.
C2_TimeFileExcluded ==
    /\ \A i \in 1..Len(rhs.file_paths) : NameOf(rhs.file_paths[i]) # TimeFileName
    /\ \A i \in 1..Len(rhs.applied) : NameOf(rhs.applied[i].file_path) # TimeFileName
    /\ Stem(TimeFileName) \notin DOMAIN rhs.recordings

\* The header files of a folder: its *.rhs files.
PatRhs == <<"*", ".", "r", "h", "s">>
HeaderFiles(dir) == {n \in dir : FnMatch(PatRhs, n)}

\* C9: on a folder with no header file, and on one with two, load_rhs fails
\* where it looks for the header: no timestamp or data file is read and nothing
\* is returned.
C9_HeaderCountChecked ==
    (rhs.pc # "start" /\ Cardinality(HeaderFiles(rhs.dir)) \in {0, 2})
    => (rhs.pc = "error" /\ rhs.opened = {} /\ ~rhs.returned)

\* C10: the branch a matched data file takes is decided by the file's name alone:
\* it is the branch the same name takes in any other folder, whatever the text of
\* the folder's path.  (Stated for the data files.)
C10_ClassifiedByName ==
    \A i \in 1..Len(rhs.applied) :
      NameOf(rhs.applied[i].file_path) # TimeFileName =>
        rhs.applied[i].kind = Classify(NameOf(rhs.applied[i].file_path))

(***************************************************************************)
(* Properties of the transforms (under SpecS).                             *)
(***************************************************************************)
\* C3: for a board-ANALOG-IN or board-ANALOG-OUT file and every 16-bit word r,
\* the sample is (r - 32768) * 0.0003125 in signed arithmetic, with no wrap
\* modulo 2^16: r = 32768 gives 0.0 and r = 0 gives -10.24.
C3_AdcSigned ==
    (scl.pc = "done" /\ scl.kind = "adc")
    => scl.signal = Frac((scl.word - 32768) * 3125, 10000000)

\* C4: for a stim- file and every 16-bit word v with low byte b, the sign factor
\* is (128 - b) / 128 in signed arithmetic and the sample is
\* (b * stim_step_size) * sign, whatever the upper byte of v: 0 for b = 0 and for
\* b = 128, and a negative sign for every b > 128.
C4_StimSigned ==
    (scl.pc = "done" /\ scl.kind = "stim")
    => LET b == scl.word % 256
       IN  /\ scl.sign = Frac(128 - b, 128)
           /\ scl.signal = Frac(b * scl.stim_step_size * (128 - b), 128)

====
